---- MODULE Spec2Model ----
(***************************************************************************)
(* A model of pyzfs: the distributed pair loop of ZFSCalculation.solve     *)
(* (src/pyzfs/zfs/main.py), the wavefunction loader of Quantum Espresso    *)
(* save files (src/pyzfs/common/wfc/qeloader.py), the tensor reduction at  *)
(* the end of solve, and the driver (src/pyzfs/run.py).                    *)
(*                                                                         *)
(* Specifications:                                                         *)
(*   Spec        the SPMD run of solve on a side x side processor grid     *)
(*   SpecLoad    QEWavefunctionLoader.load on one process                  *)
(*   SpecTensor  the reduction of Iglobal to D, its eigenvalues, D and E   *)
(*   SpecRun     run.main on one process: loader, ZFSCalculation, solve    *)
(* Each specification leaves the variables of the others at their idle     *)
(* values.                                                                 *)
(***************************************************************************)
EXTENDS Integers, Sequences, FiniteSets, TLC

\* Bands listed in each of eigenval1.xml and eigenval2.xml.
NBands == 2
\* Largest side of the square processor grid.
MaxSide == 2
\* Largest number of orbitals (norbs) in a run of solve.
MaxOrbs == 4
\* Occupations are in tenths; qeloader.py keeps the bands with occupation > 0.8.
OccThreshold == 8
\* The occupations a band can have here: exactly at the threshold, or full.
OccLevels == {OccThreshold, 10}

VARIABLES
    uoccs,      \* OCCUPATIONS of eigenval1.xml (spin up), in tenths, by band
    doccs,      \* OCCUPATIONS of eigenval2.xml (spin down)
    nuorbs,     \* wfc.nuorbs: the number of spin-up orbitals that scan found
    ndorbs,     \* wfc.ndorbs: the number of spin-down orbitals that scan found
    side,       \* pgrid: the side of the square processor grid
    pc,         \* per process: index of its next step in Steps
    collectives,\* history: per process, the collectives it has completed
    Iloc,       \* per process: the local block of self.I, by local cell
    pos,        \* per process: pairs its loop has taken from get_triu_iterator
    ctotal,     \* per process: the total given to the Counter (-1: not yet)
    requested,  \* per process: the iorbs passed to wfcloader.load
    psirRead,   \* history: per process, the indices given to get_psir, get_rhog
    yielded,    \* history: per global pair, how many times a loop took it
    chiLog,     \* history: per global pair, the chi of its write (0: no write)
    Iglobal     \* per process: self.Iglobal (NoArray until collect)

mainVars == <<side, pc, collectives, Iloc, pos, ctotal, requested, psirRead, yielded, chiLog, Iglobal>>
scanVars == <<uoccs, doccs, nuorbs, ndorbs>>

\* The loader, in load
VARIABLES
    iorbsL,       \* the set iorbs passed to load
    order,        \* the order in which Python iterates over the set iorbs
    file1,        \* the tags of K00001/evc1.xml in file order (0: not an evc tag)
    file2,        \* the tags of K00001/evc2.xml in file order
    upIt,         \* iuorbs: what the filter iterator has still to give
    downIt,       \* idorbs: what the filter iterator has still to give
    nread,        \* leaves read of the file being parsed
    setCount,     \* per orbital: calls of wfc.set_psig_arr
    pcL,          \* "idle", "evc1", "evc2", "memory", "returned", "raised"
    loaderMemory, \* self.memory of the loader ("unset" before its construction)
    kept          \* what load leaves in the orbital store

loadVars == <<iorbsL, order, file1, file2, upIt, downIt, nread, setCount, pcL>>
loaderVars == <<loaderMemory, kept>>

\* The end of solve
VARIABLES
    Isum,     \* np.sum(self.Iglobal, axis=(0, 1)): xx, xy, xz, yy, yz, zz
    D,        \* self.D, by (row, column), 0-based
    ev,       \* self.ev
    dydxdz,   \* <<dy, dx, dz>>
    Dvalue2,  \* twice self.Dvalue
    Evalue2,  \* twice self.Evalue
    pcT       \* "idle", "sum", "mirror", "eig", "label", "done"

tensorVars == <<Isum, D, ev, dydxdz, Dvalue2, Evalue2, pcT>>

\* run.main
VARIABLES
    argMemory,     \* the value of --memory on the command line, or NoArg
    wfcfmt,        \* the value of --wfcfmt
    loaderDefault, \* the memory mode a loader has when it is given none
    pcR,           \* "idle", "loader", "init", "load", "pairs", "write", "done", "failed"
    calcMemory,    \* ZFSCalculation.memory ("unset" before __init__)
    scanned,       \* the loader has scanned the wavefunction files
    pgridMade,     \* the ProcessorGrid is created
    matrixMade,    \* the SymmetricDistributedMatrix I is created
    loadReached,   \* solve has called wfcloader.load
    pairsDone,     \* solve has run the loop over pairs
    failure        \* the exception that ended the run, or "none"

runVars == <<argMemory, wfcfmt, loaderDefault, pcR, calcMemory, scanned, pgridMade,
             matrixMade, loadReached, pairsDone, failure>>

\* common.io.indent
VARIABLES
    builtins_print,    \* builtins.print: BuiltinPrint, or k for the indented_print of instance k
    overridden_print,  \* per indent instance: self.overridden_print (None at first)
    callStack,         \* the calls of decorated functions in progress, the outermost first
    restored,          \* history: the call that returned last left the print of before it
    reentered          \* history: a function was called while its instance was in use

indentVars == <<builtins_print, overridden_print, callStack, restored, reentered>>

vars == <<scanVars, mainVars, loadVars, loaderVars, tensorVars, runVars, indentVars>>
nonMainVars == <<scanVars, loadVars, loaderVars, tensorVars, runVars, indentVars>>
nonLoadVars == <<scanVars, mainVars, tensorVars, runVars, indentVars>>
nonTensorVars == <<scanVars, mainVars, loadVars, loaderVars, runVars, indentVars>>
nonRunVars == <<scanVars, mainVars, loadVars, tensorVars, indentVars>>
nonIndentVars == <<scanVars, mainVars, loadVars, loaderVars, tensorVars, runVars>>

-----------------------------------------------------------------------------
(* QEWavefunctionLoader.scan: the index map of the orbitals *)

Abs(x) == IF x < 0 THEN -x ELSE x

\* np.where(occs > 0.8)[0] + 1: the occupied bands, ascending, 1-based.
OccupiedBands(occs) ==
    LET F[k \in 0..Len(occs)] ==
            IF k = 0 THEN <<>>
            ELSE IF occs[k] > OccThreshold THEN Append(F[k - 1], k) ELSE F[k - 1]
    IN  F[Len(occs)]

iuorbs == OccupiedBands(uoccs)
idorbs == OccupiedBands(doccs)
norbs == nuorbs + ndorbs
Orbs == 0..(norbs - 1)

\* iorb_sb_map[iwfc]: (spin, band) of orbital index iwfc (0-based index).
iorb_sb_map(iwfc) ==
    IF iwfc < nuorbs THEN <<"up", iuorbs[iwfc + 1]>>
    ELSE <<"down", idorbs[iwfc - nuorbs + 1]>>

-----------------------------------------------------------------------------
(* ProcessorGrid and SymmetricDistributedMatrix *)

Procs == (0..(side - 1)) \X (0..(side - 1))

\* Even partition of norbs over the grid side, the last block taking the rest.
BlockStart(r) == r * (norbs \div side)
BlockEnd(r) == IF r = side - 1 THEN norbs ELSE (r + 1) * (norbs \div side)
BlockOf(i) == CHOOSE r \in 0..(side - 1) : BlockStart(r) <= i /\ i < BlockEnd(r)

mstart(p) == BlockStart(p[1])
mend(p) == BlockEnd(p[1])
nstart(p) == BlockStart(p[2])
nend(p) == BlockEnd(p[2])
mloc(p) == mend(p) - mstart(p)
nloc(p) == nend(p) - nstart(p)
Cells(p) == (0..(mloc(p) - 1)) \X (0..(nloc(p) - 1))

ltog(p, iloc, jloc) == <<mstart(p) + iloc, nstart(p) + jloc>>

\* The local cells, row by row, that process p is to compute: all of an
\* upper block, the upper triangle of a diagonal block, none of a lower block.
get_triu_iterator(p) ==
    LET m == mloc(p)
        n == nloc(p)
        keep(a, b) == \/ p[1] < p[2]
                      \/ p[1] = p[2] /\ a <= b
        F[k \in 0..(m * n)] ==
            IF k = 0 THEN <<>>
            ELSE LET a == (k - 1) \div n
                     b == (k - 1) % n
                 IN  IF keep(a, b) THEN Append(F[k - 1], <<a, b>>) ELSE F[k - 1]
    IN  F[m * n]

NoArray == [x \in {} |-> 0]
ZeroBlock(p) == [cell \in Cells(p) |-> 0]

-----------------------------------------------------------------------------
(* ZFSCalculation.solve *)

\* The steps of solve, in program order, the same on every process.
\* (Variant: solve without its call of symmetrize.)
SolveStepsNoSymmetrize ==
    <<"barrier", "load", "barrier", "memusage", "ddig", "memusage", "barrier",
      "loop", "collect", "tensor">>

SolveSteps ==
    <<"barrier", "load", "barrier", "memusage", "ddig", "memusage", "barrier",
      "loop", "symmetrize", "collect", "tensor">>

\* The steps of __init__ that follow the assertion on the memory mode: the
\* processor grid, the distributed matrix, print_memory_usage.
InitSteps == <<"pgrid", "sdm", "memusage">>

\* A calculation: __init__, then solve.
Steps == InitSteps \o SolveSteps

Kind(p) == IF pc[p] <= Len(Steps) THEN Steps[pc[p]] ELSE "done"
Past(p, kind) == \E k \in 1..Len(Steps) : k < pc[p] /\ Steps[k] = kind
Advance(p) == pc' = [pc EXCEPT ![p] = @ + 1]
AdvanceAll == pc' = [p \in Procs |-> pc[p] + 1]

\* A collective returns on every process at once, and only once every
\* process has entered that same collective.
Entered(kind) == \A p \in Procs : Kind(p) = kind
Completed(kind) == collectives' = [p \in Procs |-> Append(collectives[p], kind)]

\* iorbs of solve: the rows and the columns of the local block.
\* (Variant: the rows alone.)
iorbsRowsOnly(p) == mstart(p)..(mend(p) - 1)

iorbsOf(p) == (mstart(p)..(mend(p) - 1)) \cup (nstart(p)..(nend(p) - 1))

\* i, j = self.I.ltog(iloc, jloc)
\* (Variant: the two indices taken in the other order.)
LoopPairTransposed(p, cell) ==
    LET g == ltog(p, cell[1], cell[2]) IN <<g[2], g[1]>>

LoopPair(p, cell) == ltog(p, cell[1], cell[2])

\* if i == j: ... continue
\* (Variant: no pair is skipped.)
SkipNoPair(i, j) == FALSE

SkipPair(i, j) == i = j

\* chi: the spin sign of the pair
\* (Variant: the two signs exchanged.)
chiFlipped(i, j) == IF iorb_sb_map(i)[1] = iorb_sb_map(j)[1] THEN -1 ELSE 1

chi(i, j) == IF iorb_sb_map(i)[1] = iorb_sb_map(j)[1] THEN 1 ELSE -1

\* The contraction of ddig with rhog of orbitals i and j (before the factor
\* chi): a nonzero value that names the ordered pair it was computed from.
PairValue(i, j) == 1 + i * norbs + j

InitMainOn(sides) ==
    /\ side \in sides
    /\ pc = [p \in Procs |-> 1]
    /\ collectives = [p \in Procs |-> <<>>]
    /\ Iloc = [p \in Procs |-> ZeroBlock(p)]
    /\ pos = [p \in Procs |-> 0]
    /\ ctotal = [p \in Procs |-> -1]
    /\ requested = [p \in Procs |-> {}]
    /\ psirRead = [p \in Procs |-> {}]
    /\ yielded = [g \in Orbs \X Orbs |-> 0]
    /\ chiLog = [g \in Orbs \X Orbs |-> 0]
    /\ Iglobal = [p \in Procs |-> NoArray]

\* self.pgrid = ProcessorGrid(comm, square=True): the processes of comm
\* build the grid together.
GridCreate ==
    /\ Entered("pgrid")
    /\ Completed("pgrid")
    /\ AdvanceAll
    /\ UNCHANGED nonMainVars
    /\ UNCHANGED <<side, Iloc, pos, ctotal, requested, psirRead, yielded, chiLog, Iglobal>>

\* self.pgrid.comm.barrier(): returns once every process has entered it.
Barrier ==
    /\ Entered("barrier")
    /\ Completed("barrier")
    /\ AdvanceAll
    /\ UNCHANGED nonMainVars
    /\ UNCHANGED <<side, Iloc, pos, ctotal, requested, psirRead, yielded, chiLog, Iglobal>>

\* self.print_memory_usage(): the Reduce over MPI.COMM_WORLD.
MemUsage ==
    /\ Entered("memusage")
    /\ Completed("memusage")
    /\ AdvanceAll
    /\ UNCHANGED nonMainVars
    /\ UNCHANGED <<side, Iloc, pos, ctotal, requested, psirRead, yielded, chiLog, Iglobal>>

\* self.wfcloader.load(iorbs=iorbs, sdm=self.I)
Load(p) ==
    /\ Kind(p) = "load"
    /\ requested' = [requested EXCEPT ![p] = iorbsOf(p)]
    /\ Advance(p)
    /\ UNCHANGED nonMainVars
    /\ UNCHANGED <<side, collectives, Iloc, pos, ctotal, psirRead, yielded, chiLog, Iglobal>>

\* The creation of self.I (its local block is zero from then on),
\* compute_ddig, and the reduction of Iglobal to D (see SpecTensor): local
\* steps that change none of the distributed state.
LocalStep(p) ==
    /\ Kind(p) \in {"sdm", "ddig", "tensor"}
    /\ Advance(p)
    /\ UNCHANGED nonMainVars
    /\ UNCHANGED <<side, collectives, Iloc, pos, ctotal, requested, psirRead, yielded, chiLog, Iglobal>>

\* One turn of "for iloc, jloc in self.I.get_triu_iterator()"; the first
\* turn comes after c = Counter(len(list(self.I.get_triu_iterator())), ...),
\* and the last one ends the loop.
LoopStep(p) ==
    /\ Kind(p) = "loop"
    /\ pos[p] < Len(get_triu_iterator(p))
    /\ LET cell == get_triu_iterator(p)[pos[p] + 1]
           g == LoopPair(p, cell)
           i == g[1]
           j == g[2]
       IN  /\ yielded' = [yielded EXCEPT ![g] = @ + 1]
           /\ IF SkipPair(i, j)
              THEN UNCHANGED <<Iloc, chiLog, psirRead>>
              ELSE /\ psirRead' = [psirRead EXCEPT ![p] = @ \cup {i, j}]
                   /\ Iloc' = [Iloc EXCEPT ![p][cell] = chi(i, j) * PairValue(i, j)]
                   /\ chiLog' = [chiLog EXCEPT ![g] = chi(i, j)]
    /\ ctotal' = [ctotal EXCEPT ![p] = Len(get_triu_iterator(p))]
    /\ pos' = [pos EXCEPT ![p] = @ + 1]
    /\ pc' = [pc EXCEPT ![p] = IF pos[p] + 1 = Len(get_triu_iterator(p)) THEN @ + 1 ELSE @]
    /\ UNCHANGED nonMainVars
    /\ UNCHANGED <<side, collectives, requested, Iglobal>>

\* (Variant: a process whose iterator gives nothing returns from solve.)
LoopEmptyReturns(p) ==
    /\ Kind(p) = "loop"
    /\ Len(get_triu_iterator(p)) = 0
    /\ ctotal' = [ctotal EXCEPT ![p] = 0]
    /\ pc' = [pc EXCEPT ![p] = Len(Steps) + 1]
    /\ UNCHANGED nonMainVars
    /\ UNCHANGED <<side, collectives, Iloc, pos, requested, psirRead, yielded, chiLog, Iglobal>>

\* The loop of a process whose iterator gives nothing.
LoopEmpty(p) ==
    /\ Kind(p) = "loop"
    /\ Len(get_triu_iterator(p)) = 0
    /\ ctotal' = [ctotal EXCEPT ![p] = 0]
    /\ Advance(p)
    /\ UNCHANGED nonMainVars
    /\ UNCHANGED <<side, collectives, Iloc, pos, requested, psirRead, yielded, chiLog, Iglobal>>

\* self.I.symmetrize(): a lower block takes the transpose of the block of
\* the process at the transposed grid place; a diagonal block mirrors its
\* own upper triangle; an upper block is left as it is.
Symmetrized(p) ==
    IF p[1] > p[2]
    THEN [cell \in Cells(p) |-> Iloc[<<p[2], p[1]>>][<<cell[2], cell[1]>>]]
    ELSE IF p[1] = p[2]
    THEN [cell \in Cells(p) |->
            IF cell[1] > cell[2] THEN Iloc[p][<<cell[2], cell[1]>>] ELSE Iloc[p][cell]]
    ELSE Iloc[p]

Symmetrize ==
    /\ Entered("symmetrize")
    /\ Completed("symmetrize")
    /\ Iloc' = [p \in Procs |-> Symmetrized(p)]
    /\ AdvanceAll
    /\ UNCHANGED nonMainVars
    /\ UNCHANGED <<side, pos, ctotal, requested, psirRead, yielded, chiLog, Iglobal>>

\* self.I.collect(): every process gets the whole array, each cell from the
\* local block of the process that owns it.
Collected ==
    [g \in Orbs \X Orbs |->
        LET p == <<BlockOf(g[1]), BlockOf(g[2])>>
        IN  Iloc[p][<<g[1] - mstart(p), g[2] - nstart(p)>>]]

Collect ==
    /\ Entered("collect")
    /\ Completed("collect")
    /\ Iglobal' = [p \in Procs |-> Collected]
    /\ AdvanceAll
    /\ UNCHANGED nonMainVars
    /\ UNCHANGED <<side, Iloc, pos, ctotal, requested, psirRead, yielded, chiLog>>

NextMain ==
    \/ GridCreate
    \/ Barrier
    \/ MemUsage
    \/ Symmetrize
    \/ Collect
    \/ \E p \in Procs : Load(p)
    \/ \E p \in Procs : LocalStep(p)
    \/ \E p \in Procs : LoopStep(p)
    \/ \E p \in Procs : LoopEmpty(p)

\* The state after scan, for any occupations with an occupied band.
InitScan ==
    /\ uoccs \in [1..NBands -> OccLevels]
    /\ doccs \in [1..NBands -> OccLevels]
    /\ nuorbs = Len(iuorbs)
    /\ ndorbs = Len(idorbs)
    /\ norbs >= 1

-----------------------------------------------------------------------------
(* QEWavefunctionLoader.load, on one process *)


MemoryModes == {"high", "low", "critical"}
None == -1

RangeOf(s) == {s[k] : k \in 1..Len(s)}
Perms(S) == {f \in [1..Cardinality(S) -> S] : \A a, b \in DOMAIN f : f[a] = f[b] => a = b}

\* An evc file: a leading tag that is no evc tag (INFO), then evc.<band> for
\* some bands, each once, in any order.
EvcFiles == {<<0>> \o f : f \in UNION {Perms(B) : B \in SUBSET (1..NBands)}}

\* wfc.sb_iorb_map.get((spin, band)): the orbital index of (spin, band), or
\* None when the band is not one of the occupied ones.
sb_iorb_map_get(spin, band) ==
    IF \E i \in Orbs : iorb_sb_map(i) = <<spin, band>>
    THEN CHOOSE i \in Orbs : iorb_sb_map(i) = <<spin, band>>
    ELSE None

\* filter(lambda iorb: iorb_sb_map[iorb][0] == spin, iorbs): a one-pass
\* iterator over the elements of iorbs with that spin.
FilterSpin(spin, seq) == SelectSeq(seq, LAMBDA iorb : iorb_sb_map(iorb)[1] = spin)

\* "x in it" on an iterator: takes elements from it until one equals x.
\* <<found, what is left of the iterator>>.
IterContains(it, x) ==
    IF \E k \in 1..Len(it) : it[k] = x
    THEN LET k == CHOOSE k \in 1..Len(it) : it[k] = x /\ \A h \in 1..(k - 1) : it[h] # x
         IN  <<TRUE, SubSeq(it, k + 1, Len(it))>>
    ELSE <<FALSE, <<>>>>

\* What each memory mode keeps: <<real-space orbitals, per-orbital densities>>.
KeptUnder(memory) ==
    CASE memory = "high" -> <<TRUE, TRUE>>
      [] memory = "low" -> <<TRUE, FALSE>>
      [] OTHER -> <<FALSE, FALSE>>

IdleLoad ==
    /\ iorbsL = {}
    /\ order = <<>>
    /\ file1 = <<>>
    /\ file2 = <<>>
    /\ upIt = <<>>
    /\ downIt = <<>>
    /\ nread = 0
    /\ setCount = <<>>
    /\ pcL = "idle"

IdleLoader ==
    /\ loaderMemory = "unset"
    /\ kept = <<FALSE, FALSE>>

\* The state at the call of load: the lines up to the first iterparse.
InitLoad ==
    /\ iorbsL \in SUBSET Orbs
    /\ order \in Perms(iorbsL)
    /\ file1 \in EvcFiles
    /\ file2 \in EvcFiles
    /\ \A i \in iorbsL : iorb_sb_map(i)[2] \in
            RangeOf(IF iorb_sb_map(i)[1] = "up" THEN file1 ELSE file2)
    /\ upIt = FilterSpin("up", order)
    /\ downIt = FilterSpin("down", order)
    /\ nread = 0
    /\ setCount = [i \in Orbs |-> 0]
    /\ pcL = "evc1"
    /\ kept = <<FALSE, FALSE>>
    /\ loaderMemory \in MemoryModes

\* One leaf of evc1.xml.
LoadLeafUp ==
    /\ pcL = "evc1"
    /\ nread < Len(file1)
    /\ LET tag == file1[nread + 1]
           iorb == sb_iorb_map_get("up", tag)
           r == IterContains(upIt, iorb)
       IN  IF tag # 0
           THEN /\ upIt' = r[2]
                /\ setCount' = IF r[1] THEN [setCount EXCEPT ![iorb] = @ + 1] ELSE setCount
           ELSE UNCHANGED <<upIt, setCount>>
    /\ nread' = nread + 1
    /\ UNCHANGED nonLoadVars
    /\ UNCHANGED <<iorbsL, order, file1, file2, downIt, pcL, kept, loaderMemory>>

\* evc1.xml is read to its end: open evc2.xml.
LoadNextFile ==
    /\ pcL = "evc1"
    /\ nread = Len(file1)
    /\ pcL' = "evc2"
    /\ nread' = 0
    /\ UNCHANGED nonLoadVars
    /\ UNCHANGED <<iorbsL, order, file1, file2, upIt, downIt, setCount, kept, loaderMemory>>

\* One leaf of evc2.xml.
LoadLeafDown ==
    /\ pcL = "evc2"
    /\ nread < Len(file2)
    /\ LET tag == file2[nread + 1]
           iorb == sb_iorb_map_get("down", tag)
           r == IterContains(downIt, iorb)
       IN  IF tag # 0
           THEN /\ downIt' = r[2]
                /\ setCount' = IF r[1] THEN [setCount EXCEPT ![iorb] = @ + 1] ELSE setCount
           ELSE UNCHANGED <<downIt, setCount>>
    /\ nread' = nread + 1
    /\ UNCHANGED nonLoadVars
    /\ UNCHANGED <<iorbsL, order, file1, file2, upIt, pcL, kept, loaderMemory>>

\* evc2.xml is read to its end: the branch on self.memory, and the return.
LoadFinish ==
    /\ pcL = "evc2"
    /\ nread = Len(file2)
    /\ IF loaderMemory \in MemoryModes
       THEN pcL' = "returned" /\ kept' = KeptUnder(loaderMemory)
       ELSE pcL' = "raised" /\ kept' = kept
    /\ UNCHANGED nonLoadVars
    /\ UNCHANGED <<iorbsL, order, file1, file2, upIt, downIt, nread, setCount, loaderMemory>>

NextLoad == LoadLeafUp \/ LoadNextFile \/ LoadLeafDown \/ LoadFinish

-----------------------------------------------------------------------------
(* The end of solve: from Iglobal to D, its eigenvalues, and D and E *)

\* Largest entry of the sum of Iglobal over its two orbital axes.
MaxSum == 1
\* Largest absolute value of an eigenvalue of D.
MaxEv == 2


Axes == 0..2
\* np.triu_indices(3), in its order.
triu_indices == <<<<0, 0>>, <<0, 1>>, <<0, 2>>, <<1, 1>>, <<1, 2>>, <<2, 2>>>>
ZeroMatrix == [a \in Axes \X Axes |-> 0]

\* M[np.triu_indices(3)] = v
SetTriu(M, v) ==
    [a \in Axes \X Axes |->
        IF \E k \in 1..6 : triu_indices[k] = a
        THEN v[CHOOSE k \in 1..6 : triu_indices[k] = a]
        ELSE M[a]]

\* M + M.T - np.diag(M.diagonal())
\* (Variant: the diagonal is not subtracted.)
MirrorKeepingDiagonalTwice(M) == [a \in Axes \X Axes |-> M[a] + M[<<a[2], a[1]>>]]

Mirror(M) ==
    [a \in Axes \X Axes |->
        M[a] + M[<<a[2], a[1]>>] - (IF a[1] = a[2] THEN M[a] ELSE 0)]

\* keys.argsort(): the indices (1-based here) that put keys in ascending
\* order, equal keys in their order of appearance.
ArgSort(keys) ==
    CHOOSE f \in Perms(1..Len(keys)) :
        \A a, b \in 1..Len(keys) :
            a < b => \/ keys[f[a]] < keys[f[b]]
                     \/ keys[f[a]] = keys[f[b]] /\ f[a] < f[b]

\* args = np.abs(self.ev).argsort(); dy, dx, dz = self.ev[args]
\* (Variant: the eigenvalues sorted as they are, not by absolute value.)
LabelsBySignedValue(e) ==
    LET args == ArgSort(e) IN [k \in 1..3 |-> e[args[k]]]

Labels(e) ==
    LET args == ArgSort([k \in 1..3 |-> Abs(e[k])]) IN [k \in 1..3 |-> e[args[k]]]

IdleTensor ==
    /\ Isum = <<0, 0, 0, 0, 0, 0>>
    /\ D = ZeroMatrix
    /\ ev = <<0, 0, 0>>
    /\ dydxdz = <<0, 0, 0>>
    /\ Dvalue2 = 0
    /\ Evalue2 = 0
    /\ pcT = "idle"

\* After __init__ (D, ev, Dvalue, Evalue are zero) and after collect.
InitTensor ==
    /\ Isum \in [1..6 -> 0..MaxSum]
    /\ D = ZeroMatrix
    /\ ev = <<0, 0, 0>>
    /\ dydxdz = <<0, 0, 0>>
    /\ Dvalue2 = 0
    /\ Evalue2 = 0
    /\ pcT = "sum"

\* self.D[np.triu_indices(3)] = np.sum(self.Iglobal, axis=(0, 1))
TensorSum ==
    /\ pcT = "sum"
    /\ D' = SetTriu(D, Isum)
    /\ pcT' = "mirror"
    /\ UNCHANGED nonTensorVars
    /\ UNCHANGED <<Isum, ev, dydxdz, Dvalue2, Evalue2>>

\* self.D = self.D + self.D.T - np.diag(self.D.diagonal())
TensorMirror ==
    /\ pcT = "mirror"
    /\ D' = Mirror(D)
    /\ pcT' = "eig"
    /\ UNCHANGED nonTensorVars
    /\ UNCHANGED <<Isum, ev, dydxdz, Dvalue2, Evalue2>>

\* self.ev, self.evc = np.linalg.eig(self.D): any three eigenvalues.
TensorEig ==
    /\ pcT = "eig"
    /\ ev' \in [1..3 -> (-MaxEv)..MaxEv]
    /\ pcT' = "label"
    /\ UNCHANGED nonTensorVars
    /\ UNCHANGED <<Isum, D, dydxdz, Dvalue2, Evalue2>>

\* dy, dx, dz; self.Dvalue = 1.5 * dz; self.Evalue = 0.5 * (dx - dy)
TensorLabel ==
    /\ pcT = "label"
    /\ dydxdz' = Labels(ev)
    /\ Dvalue2' = 3 * Labels(ev)[3]
    /\ Evalue2' = Labels(ev)[2] - Labels(ev)[1]
    /\ pcT' = "done"
    /\ UNCHANGED nonTensorVars
    /\ UNCHANGED <<Isum, D, ev>>

NextTensor == TensorSum \/ TensorMirror \/ TensorEig \/ TensorLabel

-----------------------------------------------------------------------------
(* run.main, on one process *)


NoArg == "<absent>"
MemoryArgs == MemoryModes \cup {"medium", "High", NoArg}
SupportedFormats == {"qe", "qeh5", "qbox", "cube-wfc", "cube-density"}
Formats == SupportedFormats \cup {"vasp"}

\* kwargs = {..., "memory": "critical"}; kwargs.update(parse_sys_argv()[1]);
\* memory = kwargs["memory"]
MemoryOf(arg) == IF arg = NoArg THEN "critical" ELSE arg

\* The memory mode of the loader that main constructs: only the loader of
\* qeh5 is given memory=memory; the others keep the mode a loader has when
\* it is given none.
LoaderMemoryOf(fmt, memory, default) == IF fmt = "qeh5" THEN memory ELSE default

\* assert self.memory in ["high", "low", "critical"]
\* (Variant: no assertion.)
AssertNothing(memory) == TRUE

AssertMemory(memory) == memory \in MemoryModes

IdleRun ==
    /\ argMemory = NoArg
    /\ wfcfmt = "qe"
    /\ loaderDefault = "critical"
    /\ pcR = "idle"
    /\ calcMemory = "unset"
    /\ scanned = FALSE
    /\ pgridMade = FALSE
    /\ matrixMade = FALSE
    /\ loadReached = FALSE
    /\ pairsDone = FALSE
    /\ failure = "none"

InitRun ==
    /\ argMemory \in MemoryArgs
    /\ wfcfmt \in Formats
    /\ loaderDefault \in MemoryModes
    /\ pcR = "loader"
    /\ calcMemory = "unset"
    /\ scanned = FALSE
    /\ pgridMade = FALSE
    /\ matrixMade = FALSE
    /\ loadReached = FALSE
    /\ pairsDone = FALSE
    /\ failure = "none"

\* "Construct proper wavefunction loader": an unsupported wfcfmt raises
\* ValueError; otherwise the loader is constructed, and its construction
\* scans the wavefunction files (ZFSCalculation.__init__ reads wfcloader.wfc,
\* which scan sets, and main calls scan nowhere else). The loader of qeh5 is
\* the one that is given the mode: it may reject an invalid one on the spot.
ConstructLoader ==
    /\ pcR = "loader"
    /\ \/ /\ wfcfmt \in SupportedFormats
          /\ loaderMemory' = LoaderMemoryOf(wfcfmt, MemoryOf(argMemory), loaderDefault)
          /\ scanned' = TRUE
          /\ pcR' = "init"
          /\ failure' = failure
       \/ /\ \/ wfcfmt \notin SupportedFormats
             \/ wfcfmt = "qeh5" /\ MemoryOf(argMemory) \notin MemoryModes
          /\ pcR' = "failed"
          /\ failure' = "ValueError"
          /\ UNCHANGED <<loaderMemory, scanned>>
    /\ UNCHANGED nonRunVars
    /\ UNCHANGED <<argMemory, wfcfmt, loaderDefault, calcMemory, pgridMade, matrixMade,
                   loadReached, pairsDone, kept>>

\* zfscalc = ZFSCalculation(**kwargs): ZFSCalculation.__init__
CalcInit ==
    /\ pcR = "init"
    /\ calcMemory' = MemoryOf(argMemory)
    /\ IF AssertMemory(MemoryOf(argMemory))
       THEN /\ pgridMade' = TRUE
            /\ matrixMade' = TRUE
            /\ pcR' = "load"
            /\ failure' = failure
       ELSE /\ pcR' = "failed"
            /\ failure' = "AssertionError"
            /\ UNCHANGED <<pgridMade, matrixMade>>
    /\ UNCHANGED nonRunVars
    /\ UNCHANGED <<argMemory, wfcfmt, loaderDefault, scanned, loadReached, pairsDone,
                   loaderMemory, kept>>

\* zfscalc.solve(), its call of wfcloader.load: the loader keeps what its
\* own memory mode says, and raises ValueError on any other mode.
SolveLoad ==
    /\ pcR = "load"
    /\ loadReached' = TRUE
    /\ IF loaderMemory \in MemoryModes
       THEN /\ kept' = KeptUnder(loaderMemory)
            /\ pcR' = "pairs"
            /\ failure' = failure
       ELSE /\ pcR' = "failed"
            /\ failure' = "ValueError"
            /\ kept' = kept
    /\ UNCHANGED nonRunVars
    /\ UNCHANGED <<argMemory, wfcfmt, loaderDefault, calcMemory, scanned, pgridMade,
                   matrixMade, pairsDone, loaderMemory>>

\* zfscalc.solve(), from the loop over pairs to its end.
SolvePairs ==
    /\ pcR = "pairs"
    /\ pairsDone' = TRUE
    /\ pcR' = "write"
    /\ UNCHANGED nonRunVars
    /\ UNCHANGED <<argMemory, wfcfmt, loaderDefault, calcMemory, scanned, pgridMade,
                   matrixMade, loadReached, failure, loaderMemory, kept>>

\* "Write global I matrix and xml file"
WriteOutput ==
    /\ pcR = "write"
    /\ pcR' = "done"
    /\ UNCHANGED nonRunVars
    /\ UNCHANGED <<argMemory, wfcfmt, loaderDefault, calcMemory, scanned, pgridMade,
                   matrixMade, loadReached, pairsDone, failure, loaderMemory, kept>>

NextRun == ConstructLoader \/ CalcInit \/ SolveLoad \/ SolvePairs \/ WriteOutput

-----------------------------------------------------------------------------
(* The specifications *)

-----------------------------------------------------------------------------
(* common.io.indent: the decorator of __init__, solve and print_memory_usage *)

\* The instances of indent, one for each "@indent(...)" line, and the depth
\* to which calls of decorated functions nest.
NInstances == 3
MaxDepth == 2

Instances == 1..NInstances
BuiltinPrint == 0

\* indent.__init__: self.overridden_print = None; no function is running.
InitIndent ==
    /\ builtins_print = BuiltinPrint
    /\ overridden_print = [k \in Instances |-> None]
    /\ callStack = <<>>
    /\ restored = TRUE
    /\ reentered = FALSE

InUse(k) == \E d \in 1..Len(callStack) : callStack[d].inst = k

\* closure, up to the call of func: a function decorated with instance k is
\* called, at the top level or in the course of another decorated function.
IndentCall(k) ==
    /\ Len(callStack) < MaxDepth
    /\ overridden_print' = [overridden_print EXCEPT ![k] = builtins_print]
    /\ builtins_print' = k
    /\ callStack' = Append(callStack, [inst |-> k, before |-> builtins_print])
    /\ reentered' = (reentered \/ InUse(k))
    /\ UNCHANGED restored
    /\ UNCHANGED nonIndentVars

\* What closure assigns to builtins.print once func has returned.
\* (Variant: the print that the instance took at its creation.)
RestoredBuiltin(k) == BuiltinPrint

Restored(k) == overridden_print[k]

\* closure, after func has returned: builtins.print = self.overridden_print
IndentReturn ==
    /\ callStack # <<>>
    /\ LET top == callStack[Len(callStack)]
       IN  /\ builtins_print' = Restored(top.inst)
           /\ restored' = (Restored(top.inst) = top.before)
    /\ callStack' = SubSeq(callStack, 1, Len(callStack) - 1)
    /\ UNCHANGED <<overridden_print, reentered>>
    /\ UNCHANGED nonIndentVars

NextIndent ==
    \/ \E k \in Instances : IndentCall(k)
    \/ IndentReturn

IdleScan ==
    /\ uoccs = [b \in 1..NBands |-> 10]
    /\ doccs = [b \in 1..NBands |-> 10]
    /\ nuorbs = NBands
    /\ ndorbs = NBands

IdleMain == InitMainOn({1})

\* The occupations of a ground state: no band above an empty one is occupied.
\* (solve reads the spin of an orbital, never its band.)
Aufbau(occs) == \A b \in 1..(NBands - 1) : occs[b] >= occs[b + 1]

InitSolve ==
    /\ InitScan
    /\ Aufbau(uoccs)
    /\ Aufbau(doccs)
    /\ norbs <= MaxOrbs
    /\ InitMainOn(1..MaxSide)

Init == InitSolve /\ IdleLoad /\ IdleLoader /\ IdleTensor /\ IdleRun /\ InitIndent
Next == NextMain
Spec == Init /\ [][Next]_vars

\* Every process is a running program: while some process can take its next
\* step, or a collective that all have entered can return, a step is taken.
\* (The collectives depend on the number of orbitals, not on their spins:
\* spin up is taken as the majority channel.)
FairInit == Init /\ ndorbs <= nuorbs
SpecFair == FairInit /\ [][Next]_vars /\ WF_vars(Next)

LoadInit == InitScan /\ IdleMain /\ InitLoad /\ IdleTensor /\ IdleRun /\ InitIndent
LoadNext == NextLoad
SpecLoad == LoadInit /\ [][LoadNext]_vars

TensorInit == IdleScan /\ IdleMain /\ IdleLoad /\ IdleLoader /\ InitTensor /\ IdleRun
              /\ InitIndent
TensorNext == NextTensor
SpecTensor == TensorInit /\ [][TensorNext]_vars

RunInit == IdleScan /\ IdleMain /\ IdleLoad /\ IdleLoader /\ IdleTensor /\ InitRun
           /\ InitIndent
RunNext == NextRun
SpecRun == RunInit /\ [][RunNext]_vars

IndentInit == IdleScan /\ IdleMain /\ IdleLoad /\ IdleLoader /\ IdleTensor /\ IdleRun
              /\ InitIndent
IndentNext == NextIndent
SpecIndent == IndentInit /\ [][IndentNext]_vars

-----------------------------------------------------------------------------
(* Properties *)

RECURSIVE SumOver(_, _)
SumOver(S, f) ==
    IF S = {} THEN 0
    ELSE LET x == CHOOSE x \in S : TRUE IN f[x] + SumOver(S \ {x}, f)

AllPairs == Orbs \X Orbs
LoopsOver == \A p \in Procs : Past(p, "loop")
Holders == {p \in Procs : Past(p, "collect")}

\* C1: load-balance completeness. No global pair is ever taken twice, by one
\* loop or by two, and only pairs (i, j) with i <= j are taken; the iterators
\* of all processes together have norbs*(norbs+1)/2 elements; and once every
\* process has left its loop, every pair (i, j) with 0 <= i <= j < norbs has
\* been taken exactly once, the counts of the processes (the totals given to
\* their Counters, and the turns of their loops) adding up to
\* norbs*(norbs+1)/2.
C1_LoadBalanceComplete ==
    /\ \A g \in AllPairs : yielded[g] <= 1 /\ (yielded[g] = 1 => g[1] <= g[2])
    /\ 2 * SumOver(Procs, [p \in Procs |-> Len(get_triu_iterator(p))])
            = norbs * (norbs + 1)
    /\ LoopsOver =>
        /\ \A g \in AllPairs : g[1] <= g[2] => yielded[g] = 1
        /\ 2 * SumOver(Procs, pos) = norbs * (norbs + 1)
        /\ 2 * SumOver(Procs, ctotal) = norbs * (norbs + 1)

\* Every loop is over, on a grid of four processes whose blocks differ in
\* size, so that several processes took pairs.
C1_Witness ==
    /\ LoopsOver
    /\ side = 2
    /\ norbs = 3
    /\ \E p, q \in Procs : p # q /\ pos[p] > 0 /\ pos[q] > 0

\* C2: symmetry after collection. On every process that holds Iglobal (solve
\* has run its loop, symmetrize and collect), Iglobal[i, j] = Iglobal[j, i]
\* for all orbital indices i and j.
C2_SymmetricAfterCollect ==
    \A p \in Holders : \A i, j \in Orbs : Iglobal[p][<<i, j>>] = Iglobal[p][<<j, i>>]

\* Iglobal is held, and has a nonzero value below the diagonal in a cell
\* that a lower block of the grid owns: the value came from another process.
C2_Witness ==
    \E p \in Holders : \E i, j \in Orbs :
        /\ BlockOf(i) > BlockOf(j)
        /\ Iglobal[p][<<i, j>>] # 0

\* C3: diagonal zero. The loop writes no cell whose global indices are equal
\* (such a cell of a local block stays zero), and on every process that holds
\* Iglobal, Iglobal[i, i] = 0 for every orbital index i.
C3_DiagonalZero ==
    /\ \A i \in Orbs : chiLog[<<i, i>>] = 0
    /\ \A p \in Procs : \A cell \in Cells(p) :
            ltog(p, cell[1], cell[2])[1] = ltog(p, cell[1], cell[2])[2] => Iloc[p][cell] = 0
    /\ \A p \in Holders : \A i \in Orbs : Iglobal[p][<<i, i>>] = 0

\* Iglobal is held after the loops took, and skipped, every diagonal pair,
\* and wrote a nonzero value off the diagonal.
C3_Witness ==
    \E p \in Holders :
        /\ \A i \in Orbs : yielded[<<i, i>>] = 1
        /\ \E i, j \in Orbs : i # j /\ Iglobal[p][<<i, j>>] # 0

\* C7: spin sign. For every pair (i, j) the loop has written, the factor chi
\* is +1 when iorb_sb_map[i] and iorb_sb_map[j] have the same spin label and
\* -1 otherwise; that is, +1 exactly when i and j lie on the same side of
\* nuorbs; and the value in the cell is chi times the contraction of the pair.
C7_SpinSign ==
    /\ \A g \in AllPairs : chiLog[g] # 0 =>
        /\ (iorb_sb_map(g[1])[1] = iorb_sb_map(g[2])[1]) => chiLog[g] = 1
        /\ (iorb_sb_map(g[1])[1] # iorb_sb_map(g[2])[1]) => chiLog[g] = -1
        /\ (chiLog[g] = 1) <=> ((g[1] < nuorbs) <=> (g[2] < nuorbs))
    /\ \A p \in Procs : \A cell \in Cells(p) :
        LET g == ltog(p, cell[1], cell[2]) IN
            (p[1] <= p[2] /\ g[1] < g[2] /\ chiLog[g] # 0)
                => Iloc[p][cell] = chiLog[g] * PairValue(g[1], g[2])

\* The loop has written a pair of equal spins and a pair of opposite spins.
C7_Witness ==
    \E g, h \in AllPairs : chiLog[g] = 1 /\ chiLog[h] = -1

\* C4: load populates every requested orbital. When load returns,
\* set_psig_arr has been called exactly once for each index in iorbs and for
\* no other index.
C4_LoadPopulatesRequested ==
    pcL = "returned" =>
        \A i \in Orbs : setCount[i] = (IF i \in iorbsL THEN 1 ELSE 0)

\* C5: eigenvalue ordering. The labels (dy, dx, dz) are a permutation of the
\* three eigenvalues with |dz| >= |dx| >= |dy|, and Dvalue = 1.5 * dz,
\* Evalue = 0.5 * (dx - dy) (both doubled here).
C5_EigenvalueOrdering ==
    pcT = "done" =>
        LET dy == dydxdz[1]
            dx == dydxdz[2]
            dz == dydxdz[3]
        IN  /\ Abs(dz) >= Abs(dx)
            /\ Abs(dx) >= Abs(dy)
            /\ \E f \in Perms(1..3) : \A k \in 1..3 : dydxdz[k] = ev[f[k]]
            /\ Dvalue2 = 3 * dz
            /\ Evalue2 = dx - dy

\* The labels are assigned to eigenvalues that are not in order as they
\* come, two of them equal in absolute value and opposite in sign.
C5_Witness ==
    /\ pcT = "done"
    /\ Abs(ev[1]) > Abs(ev[2])
    /\ ev[2] = -ev[3]
    /\ ev[2] < 0

\* C6: tensor symmetry. Once D is built, D[a, b] = D[b, a] for all a and b,
\* and the upper triangle of D, its diagonal included, holds the six summed
\* components xx, xy, xz, yy, yz, zz, each once.
C6_TensorSymmetric ==
    pcT \in {"eig", "label", "done"} =>
        /\ \A a, b \in Axes : D[<<a, b>>] = D[<<b, a>>]
        /\ \A k \in 1..6 : D[triu_indices[k]] = Isum[k]

\* D is built from a sum with a nonzero diagonal and a nonzero off-diagonal
\* component.
C6_Witness ==
    /\ pcT = "done"
    /\ Isum[1] # 0
    /\ Isum[2] # 0
    /\ D[<<1, 0>>] # 0

InvalidMemory == MemoryOf(argMemory) \notin MemoryModes

\* C8, as claimed: with a memory value other than "high", "low", "critical",
\* no wavefunction file is scanned or loaded, the processor grid and the
\* distributed matrix are not created, and no pair is computed.
C8_NothingBeforeFailure ==
    InvalidMemory =>
        ~scanned /\ ~pgridMade /\ ~matrixMade /\ ~loadReached /\ ~pairsDone

\* C8, amended: with a memory value other than "high", "low", "critical",
\* the processor grid and the distributed matrix are never created, load is
\* never called and no pair is computed. The run ends, at the latest, in the
\* assertion of ZFSCalculation.__init__, which comes after the construction
\* of the loader and its scan of the wavefunction files: always so for the
\* loaders that are not given the mode (qe, qbox, cube-wfc, cube-density);
\* for qeh5 so, or in the loader's own rejection of the mode; and for an
\* unsupported wfcfmt in the ValueError of main, before any scan.
C8_FailsBeforeGrid ==
    InvalidMemory =>
        /\ ~pgridMade /\ ~matrixMade /\ ~loadReached /\ ~pairsDone
        /\ pcR \in {"loader", "init", "failed"}
        /\ pcR = "failed" =>
            \/ /\ wfcfmt \in SupportedFormats
               /\ failure = "AssertionError"
               /\ scanned
            \/ /\ wfcfmt \in {"qeh5"} \cup (Formats \ SupportedFormats)
               /\ failure = "ValueError"
               /\ ~scanned

\* The run with the loader of qe has failed in the assertion on an invalid
\* memory mode, the files scanned.
C8_Witness ==
    /\ InvalidMemory
    /\ wfcfmt = "qe"
    /\ pcR = "failed"
    /\ failure = "AssertionError"
    /\ scanned

\* C9: once the ZFSCalculation is constructed, the memory mode of the loader
\* is that of the ZFSCalculation (the one chosen with --memory), and load
\* keeps what that mode says.
C9_LoaderMemoryIsCalcMemory ==
    (calcMemory # "unset" /\ pcR # "failed") =>
        /\ loaderMemory = calcMemory
        /\ loadReached => kept = KeptUnder(calcMemory)

-----------------------------------------------------------------------------
(* Collectives *)

IsCollective(kind) == kind \in {"pgrid", "barrier", "memusage", "symmetrize", "collect"}
CollectivesBefore(k) == SelectSeq(SubSeq(Steps, 1, k - 1), IsCollective)
AllDone == \A p \in Procs : Kind(p) = "done"

\* C11: no deadlock at collectives. At every moment every process has
\* completed exactly the collectives that the program puts before its
\* position, in program order (the grid construction, the barriers, the
\* reductions of print_memory_usage, symmetrize, collect), whatever its grid
\* coordinates and however many pairs its iterator yields; and every process
\* eventually reaches the end of solve.
C11_NoDeadlockAtCollectives ==
    /\ [](\A p \in Procs : collectives[p] = CollectivesBefore(pc[p]))
    /\ <>AllDone

\* On a grid of more than one process, all have reached the end of solve,
\* one of them with an iterator that yielded no pair and one with pairs.
C11_Witness ==
    /\ side > 1
    /\ AllDone
    /\ \E p \in Procs : ctotal[p] = 0 /\ p # <<0, 0>>
    /\ \E q \in Procs : ctotal[q] > 0
    /\ \A p \in Procs : collectives[p] = CollectivesBefore(Len(Steps) + 1)

-----------------------------------------------------------------------------
(* The orbitals of the pair loop *)

\* The global pairs that the loop of process p has got from ltog so far.
Taken(p) == {LoopPair(p, get_triu_iterator(p)[k]) : k \in 1..pos[p]}

\* C12: every orbital the pair loop reads was requested from the loader. On
\* each process, both global indices of every pair that ltog returned for a
\* cell of get_triu_iterator, and every index given to get_psir or get_rhog,
\* are in the iorbs that solve passed to load.
C12_LoopReadsRequested ==
    \A p \in Procs :
        /\ \A g \in Taken(p) : g[1] \in requested[p] /\ g[2] \in requested[p]
        /\ psirRead[p] \subseteq requested[p]

\* A process off the diagonal of the grid has finished its loop, having
\* read orbitals of its rows and of its columns, which do not meet.
C12_Witness ==
    \E p \in Procs :
        /\ p[1] # p[2]
        /\ Past(p, "loop")
        /\ \E i \in psirRead[p] : i < mend(p)
        /\ \E j \in psirRead[p] : j >= nstart(p)
        /\ Cardinality(Taken(p)) = ctotal[p]

-----------------------------------------------------------------------------
(* The decorator indent *)

PrintRestoredAlways == restored

====
